---- MODULE Spec2Model ----
(***************************************************************************)
(* A model of tastymap: the TastyMap palette object (models.py), the       *)
(* helper functions behind it (utils.py), the cook_tmap factory (core.py)  *)
(* and the earlier TastyMap of tasty_map.py.                               *)
(*                                                                         *)
(* A colour is one fixed-point channel value (an integer): matplotlib      *)
(* treats the four RGBA channels alike in every operation modelled here,   *)
(* so one channel stands for a sample.  A colormap is its name, its lookup *)
(* table (the samples cmap_to_array reads back) and its three extremes.    *)
(* Names are strings; the regular expressions of the name codec are        *)
(* scanned character by character.                                         *)
(***************************************************************************)
EXTENDS Integers, Sequences, FiniteSets, TLC

(***************************************************************************)
(* Bounds of the model.                                                    *)
(***************************************************************************)
MaxSteps == 2
MaxN == 3
MaxLen == 6

(***************************************************************************)
(* Python values.                                                          *)
(***************************************************************************)
\* Python's None where an integer is expected (slice parts, num_colors).
None == 99
\* A colour that was never set (Colormap._rgba_bad/_rgba_under/_rgba_over is None).
Unset == -1
\* matplotlib's default bad colour, the transparent (0, 0, 0, 0).
Transparent == -2

Min(a, b) == IF a < b THEN a ELSE b
Max(a, b) == IF a < b THEN b ELSE a

\* str(x) of an int or of None, as an f-string prints it.
PyStr(x) == IF x = None THEN "None" ELSE ToString(x)

\* bool(x) of an int or of None: None and 0 are falsy.
Truthy(x) == x # None /\ x # 0

(***************************************************************************)
(* Strings, one character at a time.                                       *)
(***************************************************************************)
Ch(s, i) == IF i >= 1 /\ i <= Len(s) THEN SubSeq(s, i, i) ELSE ""

IsR(c) == c = "r" \/ c = "R"

\* The end of the maximal run of r's that starts at position i (i - 1 when
\* there is none).
RECURSIVE RunEnd(_, _)
RunEnd(s, i) == IF IsR(Ch(s, i)) THEN RunEnd(s, i + 1) ELSE i - 1

\* re.match of _r+(?=_|$) with IGNORECASE at position i: the position of the
\* last character of the match, or 0.  r+ is greedy and a shorter run is
\* always followed by another r, so only the maximal run can match.
MatchR(s, i) ==
    IF Ch(s, i) = "_" /\ IsR(Ch(s, i + 1))
    THEN LET e == RunEnd(s, i + 1)
         IN  IF e = Len(s) \/ Ch(s, e + 1) = "_" THEN e ELSE 0
    ELSE 0

\* re.findall(r"_r+(?=_|$)", s, IGNORECASE): the non-overlapping matches from
\* left to right, each as <<first, last>> positions.
RECURSIVE FindAllR(_, _)
FindAllR(s, i) ==
    IF i > Len(s) THEN << >>
    ELSE LET e == MatchR(s, i)
         IN  IF e = 0 THEN FindAllR(s, i + 1)
             ELSE << <<i, e>> >> \o FindAllR(s, e + 1)

\* replace_match(r"_r+(?=_|$)", string, "_r"): more than one match raises
\* ValueError, one match is removed from the string and returned, no match
\* leaves the string and returns "".
replace_match_r(string) ==
    LET matches == FindAllR(string, 1)
    IN  IF Len(matches) > 1
        THEN [status |-> "ValueError", string |-> string, match |-> ""]
        ELSE IF Len(matches) = 1
        THEN LET m == matches[1]
             IN  [status |-> "ok",
                  string |-> SubSeq(string, 1, m[1] - 1)
                             \o SubSeq(string, m[2] + 1, Len(string)),
                  match  |-> SubSeq(string, m[1], m[2])]
        ELSE [status |-> "ok", string |-> string, match |-> ""]

\* \d
IsDigit(c) == c \in {"0", "1", "2", "3", "4", "5", "6", "7", "8", "9"}

\* The position of the last digit of the run of digits that starts at
\* position i, i - 1 when there is no digit at i (\d* is greedy).
RECURSIVE DigitsEnd(_, _)
DigitsEnd(s, i) == IF IsDigit(Ch(s, i)) THEN DigitsEnd(s, i + 1) ELSE i - 1

\* The position after an optional "-" at position i (-?).
AfterSign(s, i) == IF Ch(s, i) = "-" THEN i + 1 ELSE i

\* The pattern _n\d+(?=_|$), IGNORECASE, matched at position i: the position
\* of the last character of the match, 0 when it does not match there.
MatchN(s, i) ==
    IF Ch(s, i) = "_" /\ Ch(s, i + 1) \in {"n", "N"} /\ IsDigit(Ch(s, i + 2))
    THEN LET e == DigitsEnd(s, i + 2)
         IN  IF e = Len(s) \/ Ch(s, e + 1) = "_" THEN e ELSE 0
    ELSE 0

\* (?:,-?\d+)* from position i on: the position after the last repetition.
RECURSIVE AfterCommas(_, _)
AfterCommas(s, i) ==
    IF Ch(s, i) = "," /\ IsDigit(Ch(s, AfterSign(s, i + 1)))
    THEN AfterCommas(s, DigitsEnd(s, AfterSign(s, i + 1)) + 1)
    ELSE i

\* (?::\d*)? from position i on: the position after it.
AfterStop(s, i) == IF Ch(s, i) = ":" THEN DigitsEnd(s, i + 1) + 1 ELSE i

\* (?::-?\d+)? from position i on: the position after it.
AfterStep(s, i) ==
    IF Ch(s, i) = ":" /\ IsDigit(Ch(s, AfterSign(s, i + 1)))
    THEN DigitsEnd(s, AfterSign(s, i + 1)) + 1
    ELSE i

\* The pattern _i(-?\d*(?:,-?\d+)*(?::\d*)?(?::-?\d+)?), IGNORECASE, matched
\* at position i: the position of the last character of the match, 0 when it
\* does not match there.  Every part after _i may be empty and each is
\* greedy, so no part ever gives back what it took.
MatchI(s, i) ==
    IF Ch(s, i) = "_" /\ Ch(s, i + 1) \in {"i", "I"}
    THEN AfterStep(s, AfterStop(s, AfterCommas(s, DigitsEnd(s, AfterSign(s, i + 2)) + 1))) - 1
    ELSE 0

\* The three patterns of the name codec by their key.
MatchAt(key, s, i) ==
    IF key = "_n" THEN MatchN(s, i)
    ELSE IF key = "_r" THEN MatchR(s, i)
    ELSE MatchI(s, i)

\* re.findall(pattern, s, IGNORECASE) from position i on, each match as
\* <<first, last>> positions.
RECURSIVE FindAll(_, _, _)
FindAll(key, s, i) ==
    IF i > Len(s) THEN << >>
    ELSE IF MatchAt(key, s, i) = 0 THEN FindAll(key, s, i + 1)
    ELSE << <<i, MatchAt(key, s, i)>> >> \o FindAll(key, s, MatchAt(key, s, i) + 1)

\* What findall lists for a match: the text of the group when the pattern
\* has one (the _i pattern: the text after _i), the whole match otherwise.
MatchText(key, s, m) ==
    IF key = "_i" THEN SubSeq(s, m[1] + 2, m[2]) ELSE SubSeq(s, m[1], m[2])

replace_match_keep(key, string) ==
    IF Len(FindAll(key, string, 1)) > 1
    THEN [status |-> "ValueError", string |-> string, match |-> ""]
    ELSE IF Len(FindAll(key, string, 1)) = 1
    THEN [status |-> "ok", string |-> string,
          match |-> MatchText(key, string, FindAll(key, string, 1)[1])]
    ELSE [status |-> "ok", string |-> string, match |-> ""]

\* replace_match(pattern, string, key) for the pattern of the key: more
\* than one match raises ValueError; one match is removed from the string
\* (sub with count=1) and what findall lists for it is returned; no match
\* returns the string as it is and "".
replace_match(key, string) ==
    IF Len(FindAll(key, string, 1)) > 1
    THEN [status |-> "ValueError", string |-> string, match |-> ""]
    ELSE IF Len(FindAll(key, string, 1)) = 1
    THEN [status |-> "ok",
          string |-> SubSeq(string, 1, FindAll(key, string, 1)[1][1] - 1)
                     \o SubSeq(string, FindAll(key, string, 1)[1][2] + 1, Len(string)),
          match |-> MatchText(key, string, FindAll(key, string, 1)[1])]
    ELSE [status |-> "ok", string |-> string, match |-> ""]

(***************************************************************************)
(* Sequences of samples.                                                   *)
(***************************************************************************)
Rev(s) == [i \in 1..Len(s) |-> s[Len(s) + 1 - i]]

\* The indices 0 <= i < len that slice(start, stop, step) selects, in order,
\* as slice.indices(len) and range compute them.  step is never 0 here.
RangeSeq(a, b, st) ==
    LET n == IF st > 0 /\ a < b THEN (b - a + st - 1) \div st
             ELSE IF st < 0 /\ a > b THEN (a - b - st - 1) \div (-st)
             ELSE 0
    IN  [k \in 1..n |-> a + (k - 1) * st]

SliceIndicesNoWrap(start, stop, step, len) ==
    LET st    == IF step = None THEN 1 ELSE step
        lower == IF st < 0 THEN -1 ELSE 0
        upper == IF st < 0 THEN len - 1 ELSE len
        a     == IF start = None THEN (IF st < 0 THEN upper ELSE lower)
                 ELSE IF start < 0 THEN Max(start, lower)
                 ELSE Min(start, upper)
        b     == IF stop = None THEN (IF st < 0 THEN lower ELSE upper)
                 ELSE IF stop < 0 THEN Max(stop, lower)
                 ELSE Min(stop, upper)
    IN  RangeSeq(a, b, st)

SliceIndices(start, stop, step, len) ==
    LET st    == IF step = None THEN 1 ELSE step
        lower == IF st < 0 THEN -1 ELSE 0
        upper == IF st < 0 THEN len - 1 ELSE len
        a     == IF start = None THEN (IF st < 0 THEN upper ELSE lower)
                 ELSE IF start < 0 THEN Max(start + len, lower)
                 ELSE Min(start, upper)
        b     == IF stop = None THEN (IF st < 0 THEN lower ELSE upper)
                 ELSE IF stop < 0 THEN Max(stop + len, lower)
                 ELSE Min(stop, upper)
    IN  RangeSeq(a, b, st)

(***************************************************************************)
(* matplotlib colormaps.                                                   *)
(***************************************************************************)
NoCmap == [name |-> "", colors |-> << >>, bad |-> Unset, under |-> Unset, over |-> Unset]

Ok(c) == [status |-> "ok", val |-> c]
Err(e) == [status |-> e, val |-> NoCmap]

\* Entry k (0-based) of the lookup table that _create_lookup_table builds for
\* N >= 2 entries from M >= 2 equally spaced colours: the first and the last
\* colour at the ends, linear interpolation between the two neighbours
\* elsewhere (searchsorted picks the first anchor at or after the point).
LutEntry(colors, N, k) ==
    LET M == Len(colors)
    IN  IF k = 0 THEN colors[1]
        ELSE IF k = N - 1 THEN colors[M]
        ELSE LET j   == CHOOSE x \in 1..(M - 1) :
                            /\ x * (N - 1) >= k * (M - 1)
                            /\ \A y \in 1..(x - 1) : y * (N - 1) < k * (M - 1)
                 num == k * (M - 1) - (j - 1) * (N - 1)
             IN  (colors[j] * (N - 1 - num) + colors[j + 1] * num) \div (N - 1)

from_list_size_first(name, colors, N) ==
    IF N < 1 THEN Err("ValueError")
    ELSE IF Len(colors) = 0 THEN Err("IndexError")
    ELSE IF Len(colors) = 1 THEN Err("ValueError")
    ELSE Ok([name   |-> name,
             colors |-> IF N = 1 THEN <<colors[Len(colors)]>>
                        ELSE [k \in 1..N |-> LutEntry(colors, N, k - 1)],
             bad |-> Unset, under |-> Unset, over |-> Unset])

\* LinearSegmentedColormap.from_list(name, colors, N) followed by the first
\* read of the colormap (TastyMap.__init__ calls cmap_to_array at once, which
\* builds the lookup table):
\*   no colour at all          IndexError (colors[0])
\*   N < 1                     ValueError (linspace / broadcasting into 0 rows)
\*   a single colour           ValueError (the anchors must run from 0 to 1)
\*   N = 1                     the one-entry table holds the last colour
from_list(name, colors, N) ==
    IF Len(colors) = 0 THEN Err("IndexError")
    ELSE IF N < 1 THEN Err("ValueError")
    ELSE IF Len(colors) = 1 THEN Err("ValueError")
    ELSE Ok([name   |-> name,
             colors |-> IF N = 1 THEN <<colors[Len(colors)]>>
                        ELSE [k \in 1..N |-> LutEntry(colors, N, k - 1)],
             bad |-> Unset, under |-> Unset, over |-> Unset])

\* cmap_to_array of a LinearSegmentedColormap: cmap(np.linspace(0, 1, cmap.N)),
\* where the float i / (N - 1) reads table entry int(i / (N - 1) * N), and 1.0
\* reads the last one.
cmap_to_array(cmap) ==
    LET N == Len(cmap.colors)
    IN  [i \in 1..N |->
            IF N = 1 THEN cmap.colors[1]
            ELSE cmap.colors[Min(((i - 1) * N) \div (N - 1), N - 1) + 1]]

\* Colormap.get_bad / get_under / get_over: the colour set, or the default
\* (transparent; the first entry; the last entry).
get_bad(cmap) == IF cmap.bad = Unset THEN Transparent ELSE cmap.bad
get_under(cmap) == IF cmap.under = Unset THEN cmap.colors[1] ELSE cmap.under
get_over(cmap) == IF cmap.over = Unset THEN cmap.colors[Len(cmap.colors)] ELSE cmap.over

\* Colormap.set_extremes: None leaves a colour as it is.
cmap_set_extremes(cmap, bad, under, over) ==
    [cmap EXCEPT !.bad   = IF bad = None THEN @ ELSE bad,
                 !.under = IF under = None THEN @ ELSE under,
                 !.over  = IF over = None THEN @ ELSE over]

(***************************************************************************)
(* utils.py                                                                *)
(***************************************************************************)
\* An index handed to subset_cmap / TastyMap.__getitem__.
IntIdx(i) == [kind |-> "int", i |-> i, lst |-> << >>,
              start |-> None, stop |-> None, step |-> None]
ListIdx(l) == [kind |-> "list", i |-> 0, lst |-> l,
               start |-> None, stop |-> None, step |-> None]
SliceIdx(a, b, c) == [kind |-> "slice", i |-> 0, lst |-> << >>,
                      start |-> a, stop |-> b, step |-> c]
StrIdx == [kind |-> "str", i |-> 0, lst |-> << >>,
           start |-> None, stop |-> None, step |-> None]
ArrIdx(l) == [kind |-> "array", i |-> 0, lst |-> l,
              start |-> None, stop |-> None, step |-> None]
NoIdx == [kind |-> "none", i |-> 0, lst |-> << >>,
          start |-> None, stop |-> None, step |-> None]

\* ",".join(str(i) for i in l)
RECURSIVE JoinComma(_)
JoinComma(l) ==
    IF Len(l) = 0 THEN ""
    ELSE IF Len(l) = 1 THEN ToString(l[1])
    ELSE ToString(l[1]) \o "," \o JoinComma(Tail(l))

\* numpy's array[i] for an integer i of an index array: negative i counts
\* from the end, anything outside -len .. len - 1 is an IndexError.
InRange(i, len) == i >= -len /\ i <= len - 1
Pos(i, len) == IF i < 0 THEN i + len + 1 ELSE i + 1

\* subset_name with the full reversal spelled as an index token.
subset_name_spelled(name, idx) ==
    IF idx.kind = "int" THEN [status |-> "ok", string |-> name \o "_i" \o ToString(idx.i)]
    ELSE IF idx.kind = "list"
    THEN [status |-> "ok",
          string |-> name \o "_i" \o
                     JoinComma(IF Len(idx.lst) = 1 THEN <<idx.lst[1], idx.lst[1]>>
                               ELSE idx.lst)]
    ELSE IF ~Truthy(idx.start) /\ ~Truthy(idx.stop)
    THEN [status |-> "ok", string |-> name \o "_i::" \o PyStr(idx.step)]
    ELSE [status |-> "ok",
          string |-> name \o "_i" \o PyStr(idx.start) \o ":" \o PyStr(idx.stop)
                     \o ":" \o PyStr(idx.step)]

\* subset_name with "_r" appended for every full reversal, whatever the name
\* already holds.
subset_name_append(name, idx) ==
    IF idx.kind = "int" THEN [status |-> "ok", string |-> name \o "_i" \o ToString(idx.i)]
    ELSE IF idx.kind = "list"
    THEN [status |-> "ok",
          string |-> name \o "_i" \o
                     JoinComma(IF Len(idx.lst) = 1 THEN <<idx.lst[1], idx.lst[1]>>
                               ELSE idx.lst)]
    ELSE IF ~Truthy(idx.start) /\ ~Truthy(idx.stop)
    THEN IF idx.step = -1
         THEN [status |-> "ok", string |-> name \o "_r"]
         ELSE [status |-> "ok", string |-> name \o "_i::" \o PyStr(idx.step)]
    ELSE [status |-> "ok",
          string |-> name \o "_i" \o PyStr(idx.start) \o ":" \o PyStr(idx.stop)
                     \o ":" \o PyStr(idx.step)]

\* The name subset_cmap gives the subset (utils.py, lines 64-85).
subset_name(name, idx) ==
    IF idx.kind = "int" THEN [status |-> "ok", string |-> name \o "_i" \o ToString(idx.i)]
    ELSE IF idx.kind = "list"
    THEN [status |-> "ok",
          string |-> name \o "_i" \o
                     JoinComma(IF Len(idx.lst) = 1 THEN <<idx.lst[1], idx.lst[1]>>
                               ELSE idx.lst)]
    ELSE IF ~Truthy(idx.start) /\ ~Truthy(idx.stop)
    THEN IF idx.step = -1
         THEN LET r == replace_match_r(name)
              IN  IF r.status # "ok" THEN [status |-> r.status, string |-> name]
                  ELSE IF r.match = ""
                  THEN [status |-> "ok", string |-> r.string \o "_r"]
                  ELSE [status |-> "ok", string |-> r.string]
         ELSE [status |-> "ok", string |-> name \o "_i::" \o PyStr(idx.step)]
    ELSE [status |-> "ok",
          string |-> name \o "_i" \o PyStr(idx.start) \o ":" \o PyStr(idx.stop)
                     \o ":" \o PyStr(idx.step)]

subset_array_plain(arr, idx) ==
    LET len == Len(arr)
    IN  IF idx.kind = "int"
        THEN IF InRange(idx.i, len)
             THEN [status |-> "ok", arr |-> <<arr[Pos(idx.i, len)]>>]
             ELSE [status |-> "IndexError", arr |-> << >>]
        ELSE IF idx.kind = "list"
        THEN LET l == idx.lst
             IN  IF Len(l) = 0 THEN [status |-> "IndexError", arr |-> << >>]
                 ELSE IF \A k \in 1..Len(l) : InRange(l[k], len)
                 THEN [status |-> "ok", arr |-> [k \in 1..Len(l) |-> arr[Pos(l[k], len)]]]
                 ELSE [status |-> "IndexError", arr |-> << >>]
        ELSE IF idx.step = 0 THEN [status |-> "ValueError", arr |-> << >>]
        ELSE LET sel == SliceIndices(idx.start, idx.stop, idx.step, len)
             IN  [status |-> "ok", arr |-> [k \in 1..Len(sel) |-> arr[sel[k] + 1]]]

\* cmap_array[cmap_indices] (utils.py, line 87).
subset_array(arr, idx) ==
    LET len == Len(arr)
    IN  IF idx.kind = "int"
        THEN IF InRange(idx.i, len)
             THEN [status |-> "ok", arr |-> <<arr[Pos(idx.i, len)], arr[Pos(idx.i, len)]>>]
             ELSE [status |-> "IndexError", arr |-> << >>]
        ELSE IF idx.kind = "list"
        THEN LET l == IF Len(idx.lst) = 1 THEN <<idx.lst[1], idx.lst[1]>> ELSE idx.lst
             IN  IF Len(l) = 0 THEN [status |-> "IndexError", arr |-> << >>]
                 ELSE IF \A k \in 1..Len(l) : InRange(l[k], len)
                 THEN [status |-> "ok", arr |-> [k \in 1..Len(l) |-> arr[Pos(l[k], len)]]]
                 ELSE [status |-> "IndexError", arr |-> << >>]
        ELSE IF idx.step = 0 THEN [status |-> "ValueError", arr |-> << >>]
        ELSE LET sel == SliceIndices(idx.start, idx.stop, idx.step, len)
             IN  [status |-> "ok", arr |-> [k \in 1..Len(sel) |-> arr[sel[k] + 1]]]

\* subset_cmap(cmap, indices) and the TastyMap(cmap) built from its result.
\* A str is a Sequence, and len() of the 0-d array made of it is a TypeError.
\* A numpy array is no int, no Sequence and no slice: no branch binds
\* cmap_indices, and line 87 raises UnboundLocalError.
subset_cmap(cmap, idx) ==
    IF idx.kind = "str" THEN Err("TypeError")
    ELSE IF idx.kind = "array" THEN Err("UnboundLocalError")
    ELSE LET nm == subset_name(cmap.name, idx)
         IN  IF nm.status # "ok" THEN Err(nm.status)
             ELSE LET sub == subset_array(cmap_to_array(cmap), idx)
                  IN  IF sub.status # "ok" THEN Err(sub.status)
                      ELSE from_list(nm.string, sub.arr, Len(sub.arr))

(***************************************************************************)
(* models.py: TastyMap.  A TastyMap is its colormap; _cmap_array is        *)
(* cmap_to_array of it.                                                    *)
(***************************************************************************)
\* TastyMap(cmap, name): a copy of cmap, renamed when name is not empty.
TastyMap(cmap, name) == [cmap EXCEPT !.name = IF name = "" THEN @ ELSE name]

\* _from_list_with_extremes: from_list, then the receiver's three extremes,
\* read through the getters, are set on the new colormap.
from_list_with_extremes(self, name, colors, N) ==
    LET r == from_list(name, colors, N)
    IN  IF r.status # "ok" THEN r
        ELSE Ok(cmap_set_extremes(r.val, get_bad(self), get_under(self), get_over(self)))

resize(self, num_colors) ==
    from_list_with_extremes(self, self.name, cmap_to_array(self), num_colors)

rename(self, name) == Ok(TastyMap(self, name))

getitem(self, idx) == subset_cmap(self, idx)

reverse(self) == getitem(self, SliceIdx(None, None, -1))

set_extremes(self, bad, under, over) == Ok(cmap_set_extremes(self, bad, under, over))

\* A sample stands for a grey (r = g = b) of that level, Full being 1.0:
\* rgb_to_hsv gives it saturation 0, so the hue shift and the saturation
\* factor leave it as it is and the value factor scales it, clipped to 1.0.
Full == 12
HueLimit == 255
SatLimit == 10
ValLimit == 3

Abs(x) == IF x < 0 THEN -x ELSE x

tweak_hsv_exclusive(self, hue, saturation, value) ==
    IF hue # None /\ Abs(hue) >= HueLimit THEN Err("ValueError")
    ELSE IF saturation # None /\ Abs(saturation) > SatLimit THEN Err("ValueError")
    ELSE IF value # None /\ (value < 0 \/ value > ValLimit) THEN Err("ValueError")
    ELSE LET arr == [i \in 1..Len(self.colors) |->
                        IF value = None THEN cmap_to_array(self)[i]
                        ELSE Min(cmap_to_array(self)[i] * value, Full)]
         IN  from_list_with_extremes(self, self.name, arr, Len(arr))

tweak_hsv_value_open(self, hue, saturation, value) ==
    IF hue # None /\ Abs(hue) > HueLimit THEN Err("ValueError")
    ELSE IF saturation # None /\ Abs(saturation) > SatLimit THEN Err("ValueError")
    ELSE IF value # None /\ (value <= 0 \/ value >= ValLimit) THEN Err("ValueError")
    ELSE LET arr == [i \in 1..Len(self.colors) |->
                        IF value = None THEN cmap_to_array(self)[i]
                        ELSE Min(cmap_to_array(self)[i] * value, Full)]
         IN  from_list_with_extremes(self, self.name, arr, Len(arr))

\* TastyMap.tweak_hsv(hue, saturation, value): hue / 255 beyond 1 in size,
\* a saturation beyond 10 in size and a value outside 0 .. 3 raise
\* ValueError, in this order; None skips a check.
tweak_hsv(self, hue, saturation, value) ==
    IF hue # None /\ Abs(hue) > HueLimit THEN Err("ValueError")
    ELSE IF saturation # None /\ Abs(saturation) > SatLimit THEN Err("ValueError")
    ELSE IF value # None /\ (value < 0 \/ value > ValLimit) THEN Err("ValueError")
    ELSE LET arr == [i \in 1..Len(self.colors) |->
                        IF value = None THEN cmap_to_array(self)[i]
                        ELSE Min(cmap_to_array(self)[i] * value, Full)]
         IN  from_list_with_extremes(self, self.name, arr, Len(arr))

and_swapped(self, other) ==
    LET arr == cmap_to_array(other) \o cmap_to_array(self)
    IN  from_list_with_extremes(self, self.name \o "_" \o other.name, arr, Len(arr))

and(self, other) ==
    LET arr == cmap_to_array(self) \o cmap_to_array(other)
    IN  from_list_with_extremes(self, self.name \o "_" \o other.name, arr, Len(arr))

(***************************************************************************)
(* The colormap registry (matplotlib.colormaps) and lookup by name.        *)
(***************************************************************************)
Upper == "ABCDEFGHIJKLMNOPQRSTUVWXYZ"
Lowers == "abcdefghijklmnopqrstuvwxyz"

UpperSet == {Ch(Upper, k) : k \in 1..Len(Upper)}

LowerCh(c) ==
    IF c \in UpperSet THEN Ch(Lowers, CHOOSE k \in 1..Len(Upper) : Ch(Upper, k) = c)
    ELSE c

\* str.lower()
RECURSIVE Lower(_)
Lower(s) == IF Len(s) = 0 THEN "" ELSE LowerCh(Ch(s, 1)) \o Lower(SubSeq(s, 2, Len(s)))

\* The colormaps matplotlib ships: every one has its reversed twin under
\* the name with _r appended.
HotColors == <<0, 4, 12>>
Builtin == {"hot", "hot_r"}
BuiltinCmaps ==
    [n \in Builtin |->
        [name |-> n, colors |-> IF n = "hot" THEN HotColors ELSE Rev(HotColors),
         bad |-> Unset, under |-> Unset, over |-> Unset]]

\* get_cmap(cmap): the registered colormap whose lower-cased name is
\* cmap.lower(), ValueError when there is none.  get_registered_cmaps maps
\* each lower-cased name to a name in the order the registry lists them, the
\* builtin names first, and a later name replaces an earlier one with the
\* same lower-cased form: a name registered in the session wins over a
\* builtin name that differs from it only in case.
get_cmap(reg, cmap) ==
    LET hits == {n \in DOMAIN reg : Lower(n) = Lower(cmap)}
    IN  IF hits = {} THEN Err("ValueError")
        ELSE Ok(reg[CHOOSE n \in hits : n \notin Builtin \/ hits \subseteq Builtin])

\* register without force: a name already in the table keeps its entry.
cmap_register_keep_first(reg, cmap, name) ==
    IF name \in Builtin THEN [status |-> "ValueError", reg |-> reg]
    ELSE [status |-> "ok",
          reg |-> [n \in DOMAIN reg \cup {name} |->
                      IF n \in DOMAIN reg THEN reg[n] ELSE [cmap EXCEPT !.name = name]]]

\* ColormapRegistry.register(cmap, name=name, force=True): a builtin name is
\* refused with ValueError, any other name is (over)written with a copy of
\* cmap that carries the name.
cmap_register(reg, cmap, name) ==
    IF name \in Builtin THEN [status |-> "ValueError", reg |-> reg]
    ELSE [status |-> "ok",
          reg |-> [n \in DOMAIN reg \cup {name} |->
                      IF n = name THEN [cmap EXCEPT !.name = name] ELSE reg[n]]]

\* TastyMap.from_str(string) of models.py and core.py: the registered
\* colormap, rebuilt from its array under the name as given.
from_str(reg, string) ==
    LET c == get_cmap(reg, string)
    IN  IF c.status # "ok" THEN c
        ELSE LET arr == cmap_to_array(c.val)
                 r   == from_list(string, arr, Len(arr))
             IN  IF r.status # "ok" THEN r ELSE Ok(TastyMap(r.val, string))

\* TastyMap.register(name) of models.py: the result is the renamed copy when
\* a name is given and the receiver itself otherwise; the receiver's colormap
\* is registered under the result's name.
register(reg, self, name) ==
    LET tm == IF name # "" THEN TastyMap(self, name) ELSE self
        r  == cmap_register(reg, self, tm.name)
    IN  [status |-> r.status, val |-> IF r.status = "ok" THEN tm ELSE NoCmap,
         reg |-> r.reg, same |-> (r.status = "ok" /\ name = "")]

(***************************************************************************)
(* core.py: the TastyMap of core.py and the cook_tmap factory.             *)
(***************************************************************************)
\* TastyMap.resize of core.py: a plain from_list, the extremes are not
\* carried over.
core_resize(self, num_colors) == from_list(self.name, cmap_to_array(self), num_colors)

\* What cook_tmap is given first: a name, a list of colour names, or a
\* value of another kind.
StrInput(s) == [kind |-> "str", str |-> s, colors |-> << >>]
SeqInput(l) == [kind |-> "seq", str |-> "", colors |-> l]
OtherInput == [kind |-> "other", str |-> "", colors |-> << >>]
\* A TastyMap handed to cook_tmap: its name and its samples.
TmInput(p) == [kind |-> "tastymap", str |-> p.name, colors |-> p.colors]

\* TastyMap.from_list(colors) of core.py for a list of colour names.
tm_from_list(colors) ==
    IF Len(colors) = 0 THEN Err("ValueError")
    ELSE from_list("custom_tastymap", colors, Len(colors))

\* cook_tmap, lines 491-510: the base palette.
cook_base(reg, x) ==
    IF x.kind = "str" THEN from_str(reg, x.str)
    ELSE IF x.kind = "seq"
    THEN IF Len(x.colors) = 0 THEN Err("IndexError") ELSE tm_from_list(x.colors)
    ELSE Err("TypeError")   \* a TastyMap is none of the four types tested

\* cook_tmap, lines 512-513: if bad or under or over.
cook_extremes(t, bad, under, over) ==
    IF t.status = "ok" /\ (bad # None \/ under # None \/ over # None)
    THEN set_extremes(t.val, bad, under, over) ELSE t

\* cook_tmap, lines 515-516: if num_colors.
cook_resize(t, num_colors) ==
    IF t.status = "ok" /\ Truthy(num_colors) THEN core_resize(t.val, num_colors) ELSE t

\* cook_tmap, lines 518-519: if reverse.
cook_reverse(t, rev) == IF t.status = "ok" /\ rev THEN reverse(t.val) ELSE t

\* cook_tmap, lines 521-523: if name, the palette is renamed in place and
\* registered under the name.
cook_register(reg, t, name) ==
    IF t.status = "ok" /\ name # ""
    THEN LET r == cmap_register(reg, [t.val EXCEPT !.name = name], name)
         IN  [status |-> r.status,
              val |-> IF r.status = "ok" THEN [t.val EXCEPT !.name = name] ELSE NoCmap,
              reg |-> r.reg]
    ELSE [status |-> t.status, val |-> t.val, reg |-> reg]

cook_tmap(reg, x, num_colors, rev, name, bad, under, over) ==
    cook_register(reg,
        cook_reverse(cook_resize(cook_extremes(cook_base(reg, x), bad, under, over),
                                 num_colors), rev),
        name)

(***************************************************************************)
(* tasty_map.py: the earlier TastyMap, whose rename and register work on   *)
(* the receiver itself.                                                    *)
(***************************************************************************)
\* sub_match(pattern, name, key), which tasty_map.py imports from utils and
\* utils.py does not define: the function replace_match under its earlier
\* name, as the call and the use of its two results show.
sub_match(key, name) == replace_match(key, name)

\* int(s) of a string of digits with an optional sign.
Digits == "0123456789"
DigitVal(c) == (CHOOSE k \in 1..Len(Digits) : Ch(Digits, k) = c) - 1

RECURSIVE ParseNat(_)
ParseNat(s) ==
    IF Len(s) = 0 THEN 0
    ELSE 10 * ParseNat(SubSeq(s, 1, Len(s) - 1)) + DigitVal(Ch(s, Len(s)))

IsInt(s) ==
    /\ AfterSign(s, 1) <= Len(s)
    /\ \A k \in AfterSign(s, 1)..Len(s) : IsDigit(Ch(s, k))

ParseInt(s) ==
    IF Ch(s, 1) = "-" THEN -ParseNat(SubSeq(s, 2, Len(s))) ELSE ParseNat(s)

\* c in s, and s.split(c, maxsplit=1)
HasChar(s, c) == \E k \in 1..Len(s) : Ch(s, k) = c
FirstPos(s, c) == CHOOSE k \in 1..Len(s) : Ch(s, k) = c /\ \A j \in 1..(k - 1) : Ch(s, j) # c
HeadOf(s, c) == IF HasChar(s, c) THEN SubSeq(s, 1, FirstPos(s, c) - 1) ELSE s
RestOf(s, c) == IF HasChar(s, c) THEN SubSeq(s, FirstPos(s, c) + 1, Len(s)) ELSE ""

\* s.split(",")
RECURSIVE SplitComma(_)
SplitComma(s) ==
    IF HasChar(s, ",") THEN <<HeadOf(s, ",")>> \o SplitComma(RestOf(s, ","))
    ELSE <<s>>

\* int(x) if x else None
IntOrNone(x) == IF x = "" THEN None ELSE ParseInt(x)

\* from_str of tasty_map.py, lines 51-65: the index the _i match stands
\* for.  A list of numbers becomes a numpy array; start:stop has step 1.
legacy_slice(start, rest) ==
    IF (start # "" /\ ~IsInt(start))
    THEN [status |-> "ValueError", idx |-> NoIdx]
    ELSE [status |-> "ok",
          idx |-> SliceIdx(IntOrNone(start),
                           IntOrNone(HeadOf(rest, ":")),
                           IF HasChar(rest, ":") THEN IntOrNone(RestOf(rest, ":")) ELSE 1)]

legacy_index(i_match) ==
    IF HasChar(i_match, ",")
    THEN IF \A k \in 1..Len(SplitComma(i_match)) : IsInt(SplitComma(i_match)[k])
         THEN [status |-> "ok",
               idx |-> ArrIdx([k \in 1..Len(SplitComma(i_match)) |->
                                  ParseInt(SplitComma(i_match)[k])])]
         ELSE [status |-> "ValueError", idx |-> NoIdx]
    ELSE IF HasChar(i_match, ":")
    THEN legacy_slice(HeadOf(i_match, ":"), RestOf(i_match, ":"))
    ELSE IF IsInt(i_match) THEN [status |-> "ok", idx |-> IntIdx(ParseInt(i_match))]
    ELSE [status |-> "ValueError", idx |-> NoIdx]

\* from_str of tasty_map.py, lines 32-35: the three tokens taken out of the
\* name one after the other, _n first, then _r, then _i.
legacy_tokens(name) ==
    LET n == sub_match("_n", name)
        r == sub_match("_r", n.string)
        i == sub_match("_i", r.string)
    IN  IF n.status # "ok" \/ r.status # "ok" \/ i.status # "ok"
        THEN [status |-> "ValueError", name |-> name, n |-> "", r |-> "", i |-> ""]
        ELSE [status |-> "ok", name |-> i.string, n |-> n.match, r |-> r.match,
              i |-> i.match]

\* The number of colours without an _n token (tasty_map.py, line 44).
DefaultNumColors == 255

\* from_str of tasty_map.py, lines 36-50: the colormap of the base name,
\* reversed for an _r token, resampled to the number of the _n token or to
\* 255, under the base name with the _n and the _r token appended.
legacy_base(reg, t) ==
    IF t.status # "ok" THEN Err(t.status)
    ELSE IF get_cmap(reg, t.name).status # "ok" THEN Err("ValueError")
    ELSE from_list(t.name \o t.n \o t.r,
                   IF t.r # "" THEN Rev(cmap_to_array(get_cmap(reg, t.name).val))
                   ELSE cmap_to_array(get_cmap(reg, t.name).val),
                   IF t.n # "" THEN ParseNat(SubSeq(t.n, 3, Len(t.n)))
                   ELSE DefaultNumColors)

\* from_str of tasty_map.py, lines 51-68: the subset for an _i token.
legacy_subset(c, i_match) ==
    IF c.status # "ok" \/ i_match = "" THEN c
    ELSE IF legacy_index(i_match).status # "ok" THEN Err(legacy_index(i_match).status)
    ELSE subset_cmap(c.val, legacy_index(i_match).idx)

\* TastyMap.from_str(name) of tasty_map.py.
legacy_from_str(reg, name) ==
    legacy_subset(legacy_base(reg, legacy_tokens(name)), legacy_tokens(name).i)

\* TastyMap.rename of tasty_map.py: self._cmap.name = name; return self.
legacy_rename(self, name) == [self EXCEPT !.name = name]

(***************************************************************************)
(* The state: one palette a program holds (tmap), the registry, and the    *)
(* last call made on the palette with what it returned.                    *)
(***************************************************************************)
VARIABLES
    registry,   \* matplotlib.colormaps: name -> colormap
    tmap,       \* the palette the calls are made on, as it is now
    before,     \* the same palette as it was when the last call was made
    op,         \* the last call and its arguments
    ret,        \* what the last call returned: status "ok" and the palette, or the error raised
    same,       \* TRUE when the object returned is the receiver itself
    steps       \* the number of calls made so far

vars == <<registry, tmap, before, op, ret, same, steps>>

NoOp == [name |-> "init", n |-> None, idx |-> NoIdx, str |-> "", other |-> NoCmap,
         rev |-> FALSE, bad |-> None, under |-> None, over |-> None,
         x |-> OtherInput, hue |-> None, saturation |-> None, value |-> None,
         key |-> "", parts |-> << >>,
         center |-> "None", extend |-> "both", clip |-> "None",
         labels |-> [given |-> FALSE, list |-> << >>], uniform_spacing |-> TRUE]

\* The arguments the calls draw from.
SizeArgs == (-1)..MaxN
NameArgs == {"", "my"}
ColorArgs == {None, 7}
IdxArgs == {IntIdx(1), ListIdx(<<2, 0>>), SliceIdx(None, None, 2), SliceIdx(1, None, None),
            SliceIdx(0, 1, None), SliceIdx(9, None, None)}
StrArgs == {"hot", "hot_r", "HOT", "hot_r_r", "my", "my_r", "hot_n2"}
InputArgs == {StrInput("hot"), StrInput("my_r"), SeqInput(<<3, 9>>), OtherInput}

Init ==
    /\ registry = BuiltinCmaps
    /\ tmap \in {from_str(BuiltinCmaps, b).val : b \in Builtin}
    /\ before = tmap
    /\ op = NoOp
    /\ ret = Ok(tmap)
    /\ same = FALSE
    /\ steps = 0

\* A call on tmap that leaves the receiver and the registry alone.
Call(o, r) ==
    /\ steps < MaxSteps
    /\ steps' = steps + 1
    /\ before' = tmap
    /\ op' = o
    /\ ret' = r
    /\ same' = FALSE
    /\ UNCHANGED <<tmap, registry>>

Resize ==
    \E n \in SizeArgs :
        Call([NoOp EXCEPT !.name = "resize", !.n = n], resize(tmap, n))

\* resize of the TastyMap of core.py, the one cook_tmap works with.
CoreResize ==
    \E n \in SizeArgs :
        Call([NoOp EXCEPT !.name = "core_resize", !.n = n], core_resize(tmap, n))

Reverse == Call([NoOp EXCEPT !.name = "reverse"], reverse(tmap))

GetItemOf(args) ==
    \E idx \in args :
        Call([NoOp EXCEPT !.name = "getitem", !.idx = idx], getitem(tmap, idx))

GetItem == GetItemOf(IdxArgs)

Rename ==
    \E name \in NameArgs :
        Call([NoOp EXCEPT !.name = "rename", !.str = name], rename(tmap, name))

SetExtremes ==
    \E bad \in ColorArgs, under \in ColorArgs, over \in ColorArgs :
        Call([NoOp EXCEPT !.name = "set_extremes",
                          !.bad = bad, !.under = under, !.over = over],
             set_extremes(tmap, bad, under, over))

\* tmap & other: other is the palette itself or a palette made of a builtin.
And ==
    \E other \in {tmap} \cup {from_str(BuiltinCmaps, b).val : b \in Builtin} :
        /\ Len(tmap.colors) + Len(other.colors) <= MaxLen
        /\ Call([NoOp EXCEPT !.name = "and", !.other = other], and(tmap, other))

Register ==
    \E name \in NameArgs :
        LET r == register(registry, tmap, name)
        IN  /\ steps < MaxSteps
            /\ steps' = steps + 1
            /\ before' = tmap
            /\ op' = [NoOp EXCEPT !.name = "register", !.str = name]
            /\ ret' = [status |-> r.status, val |-> r.val]
            /\ same' = r.same
            /\ registry' = r.reg
            /\ UNCHANGED tmap

\* rename of tasty_map.py: the receiver is renamed and returned.
LegacyRename ==
    \E name \in NameArgs \ {""} :
        /\ steps < MaxSteps
        /\ steps' = steps + 1
        /\ before' = tmap
        /\ op' = [NoOp EXCEPT !.name = "legacy_rename", !.str = name]
        /\ tmap' = legacy_rename(tmap, name)
        /\ ret' = Ok(legacy_rename(tmap, name))
        /\ same' = TRUE
        /\ UNCHANGED registry

\* TastyMap.from_str(string), a class method: tmap is not involved.
FromStr ==
    \E s \in StrArgs :
        Call([NoOp EXCEPT !.name = "from_str", !.str = s], from_str(registry, s))

\* cook_tmap(x, num_colors, reverse, name, bad, under, over)
CookOf(inputs, sizes, names) ==
    \E x \in inputs, n \in sizes, rev \in BOOLEAN,
       name \in names, c \in ColorArgs :
        LET r == cook_tmap(registry, x, n, rev, name, c, c, c)
        IN  /\ steps < MaxSteps
            /\ steps' = steps + 1
            /\ before' = tmap
            /\ op' = [NoOp EXCEPT !.name = "cook_tmap", !.x = x, !.n = n, !.rev = rev,
                                  !.str = name, !.bad = c, !.under = c, !.over = c]
            /\ ret' = [status |-> r.status, val |-> r.val]
            /\ same' = FALSE
            /\ registry' = r.reg
            /\ UNCHANGED tmap

CookTmap == CookOf(InputArgs, {None, 0, 2}, NameArgs)

\* The program goes on with the palette it was returned.
Adopt ==
    /\ op.name \notin {"init", "adopt"}
    /\ ret.status = "ok"
    /\ ~same
    /\ tmap' = ret.val
    /\ before' = ret.val
    /\ op' = [NoOp EXCEPT !.name = "adopt"]
    /\ UNCHANGED <<registry, ret, same, steps>>

Next ==
    \/ Resize
    \/ CoreResize
    \/ Reverse
    \/ GetItem
    \/ Rename
    \/ SetExtremes
    \/ And
    \/ Register
    \/ LegacyRename
    \/ FromStr
    \/ CookTmap
    \/ Adopt

Spec == Init /\ [][Next]_vars

(***************************************************************************)
(* Properties of the calls, checked under Spec.                            *)
(***************************************************************************)
Transforms == {"resize", "reverse", "getitem", "rename", "legacy_rename",
               "set_extremes", "and", "register"}

\* C1: a transformation (resize, reverse, rename, subset, set_extremes,
\* concatenate, register) that returns hands back a new TastyMap, and the
\* palette it was called on is what it was before the call.
C1_NewPaletteReceiverUntouched ==
    (op.name \in Transforms /\ ret.status = "ok") => (~same /\ tmap = before)

\* C2: reverse(p) returns p's samples in the opposite order, and reversing
\* the result gives p's samples back, for every palette p.
C2_ReverseInvolution ==
    op.name = "reverse" =>
        /\ ret.status = "ok"
        /\ cmap_to_array(ret.val) = Rev(cmap_to_array(before))
        /\ reverse(ret.val).status = "ok"
        /\ cmap_to_array(reverse(ret.val).val) = cmap_to_array(before)

\* C3: for every known name b that carries no _r token, looking up b with
\* _r appended gives the samples of b's palette in the opposite order.
C3_SuffixRReverses ==
    \A b \in DOMAIN registry :
        (op.name = "from_str" /\ op.str = b \o "_r" /\ FindAllR(b, 1) = << >>) =>
            /\ ret.status = "ok"
            /\ cmap_to_array(ret.val) = Rev(cmap_to_array(from_str(registry, b).val))

\* C4: resize(p, n) with n > 0 has exactly n samples, and so has the palette
\* of cook_tmap(x, num_colors=n) for an x that resolves to a palette.
C4_ResizeLength ==
    /\ (op.name \in {"resize", "core_resize"} /\ op.n > 0) =>
            (ret.status = "ok" /\ Len(cmap_to_array(ret.val)) = op.n)
    /\ (op.name = "cook_tmap" /\ op.n # None /\ op.n > 0
            /\ cook_base(registry, op.x).status = "ok" /\ ret.status = "ok") =>
            Len(cmap_to_array(ret.val)) = op.n

\* C5: a size n <= 0 raises ValueError, from resize and from cook_tmap alike.
C5_NonPositiveSizeFails ==
    /\ (op.name \in {"resize", "core_resize"} /\ op.n <= 0) => ret.status = "ValueError"
    /\ (op.name = "cook_tmap" /\ op.n # None /\ op.n <= 0
            /\ cook_base(registry, op.x).status = "ok") => ret.status = "ValueError"

\* C6: the palette resize(p, n) returns has the bad, under and over colours
\* that were set on p.
C6_ResizeKeepsExtremes ==
    (op.name \in {"resize", "core_resize"} /\ ret.status = "ok"
        /\ before.bad # Unset /\ before.under # Unset /\ before.over # Unset) =>
            /\ get_bad(ret.val) = get_bad(before)
            /\ get_under(ret.val) = get_under(before)
            /\ get_over(ret.val) = get_over(before)

\* C7: p & q has length(p) + length(q) samples, p's samples first and in
\* order, then q's in order, and is named p's name, "_", q's name.
C7_Concatenate ==
    op.name = "and" =>
        LET p == cmap_to_array(before)
            q == cmap_to_array(op.other)
        IN  /\ ret.status = "ok"
            /\ Len(cmap_to_array(ret.val)) = Len(p) + Len(q)
            /\ SubSeq(cmap_to_array(ret.val), 1, Len(p)) = p
            /\ SubSeq(cmap_to_array(ret.val), Len(p) + 1, Len(p) + Len(q)) = q
            /\ ret.val.name = before.name \o "_" \o op.other.name

\* A concatenation of two palettes that differ, one of them resized.
C7_Witness ==
    /\ op.name = "and"
    /\ ret.status = "ok"
    /\ cmap_to_array(before) # cmap_to_array(op.other)
    /\ Len(before.colors) # Len(op.other.colors)

(***************************************************************************)
(* Subsetting on its own: a palette the calls above can produce, and one   *)
(* __getitem__ with an index drawn from a wider set.                       *)
(***************************************************************************)
MaxIdx == 4

IdxParts == {None} \cup ((-MaxIdx)..MaxIdx) \cup {9}
StepParts == {None, -2, -1, 0, 1, 2}
SubsetArgs ==
    {IntIdx(i) : i \in (-MaxIdx)..MaxIdx}
    \cup {ListIdx(l) : l \in {<<i>> : i \in (-MaxIdx)..MaxIdx}}
    \cup {ListIdx(<<2, 0>>), ListIdx(<<0, 9>>), ListIdx(<< >>), StrIdx}
    \cup {SliceIdx(a, b, c) : a \in IdxParts, b \in IdxParts, c \in StepParts}

Hot == from_str(BuiltinCmaps, "hot").val
HotR == from_str(BuiltinCmaps, "hot_r").val

SubsetPalettes ==
    {Hot, HotR, and(HotR, HotR).val, rename(Hot, "my_R").val}
    \cup {resize(Hot, n).val : n \in 1..MaxN}

InitSubset ==
    /\ registry = BuiltinCmaps
    /\ tmap \in SubsetPalettes
    /\ before = tmap
    /\ op = NoOp
    /\ ret = Ok(tmap)
    /\ same = FALSE
    /\ steps = 0

Subset == steps = 0 /\ GetItemOf(SubsetArgs)

SpecSubset == InitSubset /\ [][Subset]_vars

(***************************************************************************)
(* Properties of subsetting, checked under SpecSubset.                     *)
(***************************************************************************)
\* What Python's seq[start:stop:step] selects of the positions 0 .. len - 1,
\* stated as a set with an order rather than as slice.indices computes it.
PySelected(start, stop, step, len) ==
    LET st == IF step = None THEN 1 ELSE step
        norm(x) == IF x < 0 THEN x + len ELSE x
        lo == IF st > 0
              THEN (IF start = None THEN 0 ELSE Max(norm(start), 0))
              ELSE (IF stop = None THEN -1 ELSE norm(stop))
        hi == IF st > 0
              THEN (IF stop = None THEN len ELSE norm(stop))
              ELSE (IF start = None THEN len - 1 ELSE Min(norm(start), len - 1))
        S  == IF st > 0
              THEN {i \in 0..(len - 1) : i >= lo /\ i < hi /\ (i - lo) % st = 0}
              ELSE {i \in 0..(len - 1) : i <= hi /\ i > lo /\ (hi - i) % (-st) = 0}
    IN  [k \in 1..Cardinality(S) |->
            CHOOSE i \in S :
                Cardinality({j \in S : IF st > 0 THEN j < i ELSE j > i}) = k - 1]

PySlice(seq, idx) ==
    LET sel == PySelected(idx.start, idx.stop, idx.step, Len(seq))
    IN  [k \in 1..Len(sel) |-> seq[sel[k] + 1]]

IsSlice == op.name = "getitem" /\ op.idx.kind = "slice" /\ op.idx.step # 0

\* A start or a stop outside -len .. len.
OutOfBounds(idx, len) ==
    \/ idx.start # None /\ (idx.start > len \/ idx.start < -len)
    \/ idx.stop # None /\ (idx.stop > len \/ idx.stop < -len)

\* C8, as the specification has it: subsetting by a slice succeeds whatever
\* the slice, components beyond the palette's bounds included, and the result
\* has exactly the samples Python's slicing selects.
C8_SliceNeverFails ==
    (IsSlice /\ OutOfBounds(op.idx, Len(before.colors))) =>
        /\ ret.status = "ok"
        /\ cmap_to_array(ret.val) = PySlice(cmap_to_array(before), op.idx)

\* The slice [::-1] in any of its spellings, which subset_cmap names with _r.
IsReversal(idx) == ~Truthy(idx.start) /\ ~Truthy(idx.stop) /\ idx.step = -1

\* C8, amended: a slice with a step other than 0 has its components clamped
\* as Python's slicing clamps them and never fails because one is out of
\* bounds.  With two samples or more selected the subset has exactly the
\* selected samples in order; with none selected it raises IndexError; with
\* exactly one selected it raises ValueError.  The one other failure is the
\* reversal [::-1] of a palette whose name holds more than one _r token,
\* which raises ValueError.
C8_SliceClamps ==
    IsSlice =>
        LET sel == PySlice(cmap_to_array(before), op.idx)
        IN  IF IsReversal(op.idx) /\ Len(FindAllR(before.name, 1)) > 1
            THEN ret.status = "ValueError"
            ELSE IF Len(sel) = 0 THEN ret.status = "IndexError"
            ELSE IF Len(sel) = 1 THEN ret.status = "ValueError"
            ELSE ret.status = "ok" /\ cmap_to_array(ret.val) = sel

\* A slice with a component out of bounds that is clamped and selects two
\* samples of a palette of three.
C8_Witness ==
    /\ IsSlice
    /\ OutOfBounds(op.idx, Len(before.colors))
    /\ op.idx.start = -1 - Len(before.colors)
    /\ op.idx.stop = 9
    /\ op.idx.step = 2
    /\ ret.status = "ok"
    /\ Len(ret.val.colors) = 2
    /\ Len(before.colors) = 3

\* C9: a slice whose start and stop both lie at or beyond the palette's
\* length raises IndexError, a string as the index raises TypeError, and no
\* subset that returns is an empty palette.
C9_BeyondRaises ==
    /\ (IsSlice /\ op.idx.start # None /\ op.idx.stop # None
            /\ op.idx.start >= Len(before.colors)
            /\ op.idx.stop >= Len(before.colors)) => ret.status = "IndexError"
    /\ (op.name = "getitem" /\ op.idx.kind = "str") => ret.status = "TypeError"
    /\ (op.name = "getitem" /\ ret.status = "ok") => Len(cmap_to_array(ret.val)) >= 1

\* The slice [9:9] of a palette raised IndexError.
C9_Witness ==
    /\ IsSlice
    /\ op.idx.start = 9
    /\ op.idx.stop = 9
    /\ op.idx.step = None
    /\ Len(before.colors) = MaxN
    /\ ret.status = "IndexError"

\* Sample i of a palette, as Python indexes it.
SampleAt(p, i) ==
    LET arr == cmap_to_array(p)
    IN  IF i < 0 THEN arr[Len(arr) + i + 1] ELSE arr[i + 1]

\* C10: one integer i in range gives a palette of exactly two samples, both
\* sample i of the original, named with the suffix _i<i>; the one-element
\* list [i] gives the same two samples, named with the suffix _i<i>,<i>.
C10_SingleIndexWidening ==
    /\ (op.name = "getitem" /\ op.idx.kind = "int"
            /\ InRange(op.idx.i, Len(before.colors))) =>
            /\ ret.status = "ok"
            /\ cmap_to_array(ret.val)
                = <<SampleAt(before, op.idx.i), SampleAt(before, op.idx.i)>>
            /\ ret.val.name = before.name \o "_i" \o ToString(op.idx.i)
    /\ (op.name = "getitem" /\ op.idx.kind = "list" /\ Len(op.idx.lst) = 1
            /\ InRange(op.idx.lst[1], Len(before.colors))) =>
            /\ ret.status = "ok"
            /\ cmap_to_array(ret.val)
                = <<SampleAt(before, op.idx.lst[1]), SampleAt(before, op.idx.lst[1])>>
            /\ ret.val.name = before.name \o "_i" \o ToString(op.idx.lst[1])
                                \o "," \o ToString(op.idx.lst[1])

\* The middle sample of a palette of three selected by the list [1].
C10_Witness ==
    /\ op.name = "getitem"
    /\ op.idx.kind = "list"
    /\ op.idx.lst = <<1>>
    /\ Len(before.colors) = 3
    /\ ret.status = "ok"
    /\ ret.val.colors = <<before.colors[2], before.colors[2]>>

(***************************************************************************)
(* tweak_hsv on its own: a palette the calls above can produce, and one    *)
(* tweak_hsv with factors around the limits.                               *)
(***************************************************************************)
HueArgs == {None, -300, -(HueLimit + 1), -HueLimit, 1 - HueLimit, 0, 50,
            HueLimit - 1, HueLimit, HueLimit + 1, 300}
SatArgs == {None, -20, -(SatLimit + 1), -SatLimit, 5, SatLimit, SatLimit + 1, 20}
ValArgs == {None, -1, 0, 2, ValLimit, ValLimit + 1}

Tweak ==
    /\ steps = 0
    /\ \E hue \in HueArgs, saturation \in SatArgs, value \in ValArgs :
            Call([NoOp EXCEPT !.name = "tweak_hsv", !.hue = hue,
                              !.saturation = saturation, !.value = value],
                 tweak_hsv(tmap, hue, saturation, value))

SpecTweak == InitSubset /\ [][Tweak]_vars

OnlyHue(h) == op.name = "tweak_hsv" /\ op.hue = h /\ op.saturation = None /\ op.value = None
OnlySat(x) == op.name = "tweak_hsv" /\ op.hue = None /\ op.saturation = x /\ op.value = None
OnlyVal(v) == op.name = "tweak_hsv" /\ op.hue = None /\ op.saturation = None /\ op.value = v

MaxTokens == 2

NTokens == {"_n2", "_N4"}
RTokens == {"_r", "_R"}
ITokens == {"_i1", "_i-1", "_i0,2", "_i1:3", "_i::-1", "_i:2", "_i3:0:-1", "_I1:"}
\* Subset suffixes as subset_cmap writes them for a slice with a negative
\* or an unset component.
WrittenTokens == {"_i1:-1:None", "_i-3:-1:1", "_i1:None:None", "_i::None", "_i::2"}
Keys == {"_n", "_r", "_i"}

TokensOf(key) == IF key = "_n" THEN NTokens ELSE IF key = "_r" THEN RTokens ELSE ITokens

PartSeqs(tokens) == UNION {[1..k -> tokens] : k \in 0..MaxTokens}

\* "".join(parts)
RECURSIVE Join(_)
Join(parts) == IF Len(parts) = 0 THEN "" ELSE Head(parts) \o Join(Tail(parts))

ReplaceMatch ==
    /\ steps = 0
    /\ \E base \in {"hot", "my"}, parts \in PartSeqs(NTokens \cup RTokens \cup ITokens),
          key \in Keys :
            Call([NoOp EXCEPT !.name = "replace_match", !.key = key,
                              !.parts = <<base>> \o parts,
                              !.str = Join(<<base>> \o parts)],
                 replace_match(key, Join(<<base>> \o parts)))

LegacyFromStr ==
    /\ steps = 0
    /\ \E base \in {"hot", "HOT", "nope"},
          parts \in PartSeqs(NTokens \cup RTokens \cup ITokens \cup WrittenTokens) :
            Call([NoOp EXCEPT !.name = "legacy_from_str",
                              !.parts = <<base>> \o parts,
                              !.str = Join(<<base>> \o parts)],
                 legacy_from_str(registry, Join(<<base>> \o parts)))

\* A slice token written from its components as the descriptor grammar has
\* it, _i<start>:<stop>[:<step>], an unset component written as nothing.
SliceStarts == {None, -3, 0, 1}
SliceStops == {None, -1, 3}
SliceSteps == {None, -1, 1, 2}
Opt(x) == IF x = None THEN "" ELSE ToString(x)
SliceToken(start, stop, step) ==
    "_i" \o Opt(start) \o ":" \o Opt(stop)
         \o (IF step = None THEN "" ELSE ":" \o ToString(step))

\* from_str of tasty_map.py on a four-sample base and one slice token.
SliceBase == "hot_n4"
DecodeSlice ==
    /\ steps = 0
    /\ \E start \in SliceStarts, stop \in SliceStops, step \in SliceSteps :
            Call([NoOp EXCEPT !.name = "decode_slice",
                              !.idx = SliceIdx(start, stop, step),
                              !.str = SliceBase \o SliceToken(start, stop, step)],
                 legacy_from_str(registry, SliceBase \o SliceToken(start, stop, step)))

NextCodec == ReplaceMatch \/ LegacyFromStr \/ DecodeSlice

InitCodec == Init /\ tmap.name = "hot"

SpecCodec == InitCodec /\ [][NextCodec]_vars

\* The positions of the tokens of a key among the parts of a descriptor.
TokenPositions(parts, key) == {k \in 1..Len(parts) : parts[k] \in TokensOf(key)}

\* The parts without the one at position k.
Without(parts, k) == SubSeq(parts, 1, k - 1) \o SubSeq(parts, k + 1, Len(parts))

\* What replace_match returns for a token: the token, for _i without its _i.
Returned(key, token) == IF key = "_i" THEN SubSeq(token, 3, Len(token)) ELSE token

\* C13: replace_match on a descriptor with more than one token of the key
\* raises ValueError, and from_str produces no palette for a descriptor
\* with more than one token of a kind; with exactly one token the string
\* comes back without it and the token is returned; with none the string
\* comes back as it was, with an empty match.
C13_AtMostOneToken ==
    /\ op.name = "replace_match" =>
        LET at == TokenPositions(op.parts, op.key)
        IN  IF Cardinality(at) > 1 THEN ret.status = "ValueError"
            ELSE IF Cardinality(at) = 1
            THEN /\ ret.status = "ok"
                 /\ ret.string = Join(Without(op.parts, CHOOSE k \in at : TRUE))
                 /\ ret.match = Returned(op.key, op.parts[CHOOSE k \in at : TRUE])
            ELSE ret.status = "ok" /\ ret.string = op.str /\ ret.match = ""
    /\ (op.name = "legacy_from_str"
            /\ \E key \in Keys :
                 Cardinality({k \in 1..Len(op.parts) :
                                 op.parts[k] \in TokensOf(key) \cup
                                     (IF key = "_i" THEN WrittenTokens ELSE {})}) > 1) =>
            ret.status = "ValueError"

\* Two _i tokens in one descriptor, refused.
C13_Witness ==
    /\ op.name = "replace_match"
    /\ op.key = "_i"
    /\ op.parts = <<"hot", "_i1:3", "_I1:">>
    /\ ret.status = "ValueError"

\* C14: for every known base name b and every n > 0, from_str of b with _n
\* and n appended has exactly n samples and a name that still carries the
\* token _n<n>.
C14_SuffixNRoundTrip ==
    \A b \in DOMAIN registry, n \in 1..MaxN :
        (op.name = "from_str" /\ op.str = b \o "_n" \o ToString(n)) =>
            /\ ret.status = "ok"
            /\ Len(cmap_to_array(ret.val)) = n
            /\ replace_match("_n", ret.val.name).match = "_n" \o ToString(n)

(***************************************************************************)
(* The name of a full reversal, checked under SpecSubset.                  *)
(***************************************************************************)
FullReversal ==
    /\ IsSlice
    /\ op.idx.start = None /\ op.idx.stop = None /\ op.idx.step = -1

\* C15: a full reversal p[::-1] that returns names its result with the token
\* _r and never with an index token: a receiver's name without an _r token
\* gets "_r" appended, a name that has its one _r token gets nothing appended
\* and loses that token, so the result never has more than one _r token and
\* never a new _i token.
C15_ReversalEncodedAsR ==
    (FullReversal /\ ret.status = "ok") =>
        /\ Len(FindAll("_r", ret.val.name, 1)) <= 1
        /\ Len(FindAll("_i", ret.val.name, 1)) = Len(FindAll("_i", before.name, 1))
        /\ IF FindAll("_r", before.name, 1) = << >>
           THEN ret.val.name = before.name \o "_r"
           ELSE /\ Len(ret.val.name) < Len(before.name)
                /\ FindAll("_r", ret.val.name, 1) = << >>

C15_Witness ==
    /\ FullReversal
    /\ ret.status = "ok"
    /\ before.name = "my_R"
    /\ ret.val.name = "my"

(***************************************************************************)
(* Names written by subset_cmap, read back.                                *)
(***************************************************************************)
\* Decoded by TastyMap.from_str of models.py and core.py: the name of the
\* subset read back gives the subset's samples.
ReadBack ==
    LET d == from_str(registry, ret.val.name)
    IN  d.status = "ok" /\ cmap_to_array(d.val) = cmap_to_array(ret.val)

\* Decoded by from_str of tasty_map.py: the same subset of the palette that
\* decoder builds from the receiver's name, named and read back.
LegacyReadBack ==
    LET p == legacy_from_str(registry, before.name)
        s == subset_cmap(p.val, op.idx)
        d == legacy_from_str(registry, s.val.name)
    IN  (p.status = "ok" /\ s.status = "ok") =>
            d.status = "ok" /\ cmap_to_array(d.val) = cmap_to_array(s.val)

\* C16: for a palette built from a known base name and any index, the name of
\* the subset is a descriptor that from_str decodes without error into a
\* palette with the samples of the subset.
C16_SubsetNamesReparse ==
    (op.name = "getitem" /\ before \in {Hot, HotR} /\ ret.status = "ok") =>
        ReadBack \/ LegacyReadBack

(***************************************************************************)
(* The order of the tokens in a name, checked under Spec.                  *)
(***************************************************************************)
\* Every match of the first key starts before every match of the second.
AllBefore(name, k1, k2) ==
    LET m1 == FindAll(k1, name, 1)
        m2 == FindAll(k2, name, 1)
    IN  \A a \in 1..Len(m1), b \in 1..Len(m2) : m1[a][1] < m2[b][1]

TokensInOrder(name) ==
    /\ AllBefore(name, "_n", "_r")
    /\ AllBefore(name, "_n", "_i")
    /\ AllBefore(name, "_r", "_i")

\* C17: a programmatic reverse or subset of a palette whose name has its
\* tokens in the order _n, _r, _i gives a name with its tokens in that order.
C17_TokenOrder ==
    (op.name \in {"reverse", "getitem"} /\ ret.status = "ok"
        /\ TokensInOrder(before.name)) =>
            TokensInOrder(ret.val.name)

(***************************************************************************)
(* Slice tokens decoded, checked under SpecCodec.                          *)
(***************************************************************************)
SliceBaseArray == cmap_to_array(legacy_from_str(BuiltinCmaps, SliceBase).val)

\* C18: decoding _i<start>:<stop>[:<step>] leaves nothing of the token in the
\* base name and selects what the Python slice of those components selects,
\* negative components and unset ones included.  Stated for the slices that
\* select two samples or more.
C18_SliceDecoding ==
    (op.name = "decode_slice" /\ Len(PySlice(SliceBaseArray, op.idx)) >= 2) =>
        /\ replace_match("_i", op.str).string = SliceBase
        /\ ret.status = "ok"
        /\ cmap_to_array(ret.val) = PySlice(SliceBaseArray, op.idx)

(***************************************************************************)
(* cook_tmap on its own: one call with arguments drawn from wider sets.    *)
(***************************************************************************)
CookInputs ==
    InputArgs \cup {StrInput("hot_r"), StrInput("nope"), SeqInput(<<3, 9, 5>>),
                    TmInput(Hot), TmInput(HotR)}
CookSizes == {None} \cup (0..MaxN)
CookNames == {"", "my", "hot"}

Cook == steps = 0 /\ CookOf(CookInputs, CookSizes, CookNames)

SpecCook == Init /\ [][Cook]_vars

\* C19: for an input x that resolves to a base palette, a size n > 0 and a
\* name m that can be registered, cook_tmap(x, num_colors=n, reverse=True,
\* name=m) returns the n samples of the resized base in reverse order under
\* the name m.
C19_FactoryOrder ==
    \A n \in 1..MaxN :
        (op.name = "cook_tmap" /\ op.n = n /\ op.rev /\ op.str = "my"
            /\ cook_base(BuiltinCmaps, op.x).status = "ok") =>
                /\ ret.status = "ok"
                /\ Len(ret.val.colors) = n
                /\ ret.val.colors =
                       Rev(cmap_to_array(core_resize(cook_base(BuiltinCmaps, op.x).val, n).val))
                /\ ret.val.name = "my"

\* C20: cook_tmap(p) for a TastyMap p, no other argument given, returns a
\* palette equal to p.
C20_PaletteAccepted ==
    (op.name = "cook_tmap" /\ op.x.kind = "tastymap" /\ op.n = None /\ ~op.rev
        /\ op.str = "" /\ op.bad = None) =>
            /\ ret.status = "ok"
            /\ ret.val.name = op.x.str
            /\ cmap_to_array(ret.val) = op.x.colors

(***************************************************************************)
(* The registry on its own: a session that has a palette registered as     *)
(* "my" registers palettes under further names and looks names up.         *)
(***************************************************************************)
RegNames == {"", "my", "HOT", "hot"}
LookupNames == {"my", "MY", "My", "hot", "HOT", "Hot", "hot_r", "nope", ""}
RegPalettes == {Hot, HotR, rename(HotR, "my").val, resize(Hot, 2).val}

InitRegistry ==
    /\ registry = cmap_register(BuiltinCmaps, Hot, "my").reg
    /\ tmap \in RegPalettes
    /\ before = tmap
    /\ op = NoOp
    /\ ret = Ok(tmap)
    /\ same = FALSE
    /\ steps = 0

\* The program turns to another palette it has built.
Take ==
    /\ op.name # "take"
    /\ \E p \in RegPalettes \ {tmap} :
        /\ tmap' = p
        /\ before' = p
        /\ op' = [NoOp EXCEPT !.name = "take"]
        /\ UNCHANGED <<registry, ret, same, steps>>

RegisterAs ==
    \E name \in RegNames :
        LET r == register(registry, tmap, name)
        IN  /\ steps < MaxSteps
            /\ steps' = steps + 1
            /\ before' = tmap
            /\ op' = [NoOp EXCEPT !.name = "register", !.str = name]
            /\ ret' = [status |-> r.status, val |-> r.val]
            /\ same' = r.same
            /\ registry' = r.reg
            /\ UNCHANGED tmap

Lookup ==
    \E name \in LookupNames :
        Call([NoOp EXCEPT !.name = "get_cmap", !.str = name], get_cmap(registry, name))

NextRegistry == Take \/ RegisterAs \/ Lookup

SpecRegistry == InitRegistry /\ [][NextRegistry]_vars

\* C21: a register call that returns leaves the receiver's colormap in the
\* table under the name of the palette returned, whatever was under that
\* name before, and every other entry as it was; a register call that
\* raises, and every step that is no register call, leaves the table as it
\* was.
C21_RegisterUpserts ==
    [][IF op'.name = "register" /\ ret'.status = "ok"
       THEN /\ ret'.val.name \in DOMAIN registry'
            /\ registry'[ret'.val.name] = [before' EXCEPT !.name = ret'.val.name]
            /\ \A n \in DOMAIN registry \ {ret'.val.name} :
                   n \in DOMAIN registry' /\ registry'[n] = registry[n]
            /\ DOMAIN registry' = DOMAIN registry \cup {ret'.val.name}
       ELSE registry' = registry]_vars

\* The entry "my" of the session's start, overwritten with the reversed
\* palette.
C21_Witness ==
    /\ op.name = "register" /\ op.str = "my"
    /\ ret.status = "ok"
    /\ before.colors = Rev(HotColors)
    /\ registry["my"].colors = Rev(HotColors)
    /\ "HOT" \in DOMAIN registry

\* The names in the registry that op.str is an upper/lower-case variant of.
Variants == {n \in DOMAIN registry : Lower(n) = Lower(op.str)}

\* C22: get_cmap of a name in the registry returns the palette stored under
\* that name, get_cmap of an upper/lower-case variant of one name in the
\* registry returns the palette stored under that name, and get_cmap of a
\* name without a case-insensitive match raises ValueError.
C22_LookupCaseInsensitive ==
    op.name = "get_cmap" =>
        /\ op.str \in DOMAIN registry =>
               ret.status = "ok" /\ ret.val = registry[op.str]
        /\ \A n \in Variants :
               Variants = {n} => ret.status = "ok" /\ ret.val = registry[n]
        /\ Variants = {} => ret.status = "ValueError"

(***************************************************************************)
(* models.py: MatplotlibTastyBar.  Tick values and bin edges are kept in   *)
(* sixtieths, so that the halves of line 562 and the fractions of linspace *)
(* are whole numbers: a value v is kept as v * One.                        *)
(***************************************************************************)
Half == 30
One == 2 * Half

\* labels=None, and labels=[...]
NoLabels == [given |-> FALSE, list |-> << >>]
Labels(l) == [given |-> TRUE, list |-> l]

Scaled(seq) == [k \in 1..Len(seq) |-> seq[k] * One]

\* ticks.sort(): ascending.
RECURSIVE Insert(_, _)
Insert(x, sorted) ==
    IF Len(sorted) = 0 THEN <<x>>
    ELSE IF x <= Head(sorted) THEN <<x>> \o sorted
    ELSE <<Head(sorted)>> \o Insert(x, Tail(sorted))

RECURSIVE Sort(_)
Sort(seq) == IF Len(seq) = 0 THEN << >> ELSE Insert(Head(seq), Sort(Tail(seq)))

\* np.linspace(vmin, vmax, num), in sixtieths.
Linspace(vmin, vmax, num) ==
    IF num = 1 THEN <<vmin * One>>
    ELSE [k \in 1..num |-> vmin * One + ((k - 1) * (vmax - vmin) * One) \div (num - 1)]

\* np.arange(vmin, vmax + step, step), in sixtieths.
Arange(vmin, vmax, step) == Scaled(RangeSeq(vmin, vmax + step, step))

\* The cap on the ticks of a range without a step (models.py, line 541).
MaxTicks == 11

\* Lines 534-548 of MatplotlibTastyBar.__init__ and 641-654 of
\* HoloViewsTastyBar.__init__: the ticks of the bounds, not yet sorted.
bar_ticks(num_colors, bounds) ==
    IF bounds.kind = "slice"
    THEN IF bounds.step = None
         THEN [status |-> "ok",
               ticks |-> Linspace(bounds.start, bounds.stop, Min(num_colors - 1, MaxTicks))]
         ELSE IF bounds.step = 0 THEN [status |-> "ZeroDivisionError", ticks |-> << >>]
         ELSE [status |-> "ok", ticks |-> Arange(bounds.start, bounds.stop, bounds.step)]
    ELSE [status |-> "ok", ticks |-> Scaled(bounds.lst)]

NoNorm == [kind |-> "", vmin |-> 0, vmax |-> 0, clip |-> FALSE,
           boundaries |-> << >>, extend |-> ""]
NoBar == [status |-> "", norm |-> NoNorm, ticks_none |-> TRUE, ticks |-> << >>,
          labels |-> NoLabels]

\* matplotlib.colors.Normalize(vmin, vmax, clip)
Normalize(vmin, vmax, clip) ==
    [status |-> "ok",
     norm |-> [NoNorm EXCEPT !.kind = "Normalize", !.vmin = vmin, !.vmax = vmax,
                             !.clip = clip]]

\* The colour bins BoundaryNorm needs: one per interval, one more for each
\* side it extends to.
Regions(boundaries, extend) ==
    (Len(boundaries) - 1)
    + (IF extend \in {"min", "both"} THEN 1 ELSE 0)
    + (IF extend \in {"max", "both"} THEN 1 ELSE 0)

\* matplotlib.colors.BoundaryNorm(boundaries, ncolors, clip, extend): clip
\* together with an extend, fewer than two boundaries and more bins than
\* colours are ValueErrors.
BoundaryNorm(boundaries, ncolors, clip, extend) ==
    IF clip /\ extend # "neither" THEN [status |-> "ValueError", norm |-> NoNorm]
    ELSE IF Len(boundaries) = 0 THEN [status |-> "IndexError", norm |-> NoNorm]
    ELSE IF Len(boundaries) < 2 THEN [status |-> "ValueError", norm |-> NoNorm]
    ELSE IF Regions(boundaries, extend) > ncolors
    THEN [status |-> "ValueError", norm |-> NoNorm]
    ELSE [status |-> "ok",
          norm |-> [kind |-> "BoundaryNorm", vmin |-> boundaries[1],
                    vmax |-> boundaries[Len(boundaries)], clip |-> clip,
                    boundaries |-> boundaries, extend |-> extend]]

\* A variant: edges at the midpoints between consecutive ticks, the first
\* and the last edge as far out as the nearest midpoint.
norm_bins_midpoints(ticks) ==
    [k \in 1..(Len(ticks) + 1) |->
        IF Len(ticks) = 1 THEN ticks[1] + (IF k = 1 THEN -Half ELSE Half)
        ELSE IF k = 1 THEN ticks[1] - (ticks[2] - ticks[1]) \div 2
        ELSE IF k = Len(ticks) + 1
        THEN ticks[k - 1] + (ticks[k - 1] - ticks[k - 2]) \div 2
        ELSE (ticks[k - 1] + ticks[k]) \div 2]

\* Lines 562-563: norm_bins = ticks + 0.5, and norm_bins[0] - 1 in front.
norm_bins_of(ticks) ==
    <<ticks[1] + Half - One>> \o [k \in 1..Len(ticks) |-> ticks[k] + Half]

\* Line 567: norm_bins[:-1] + np.diff(norm_bins) / 2
bin_centers(bins) == [k \in 1..(Len(bins) - 1) |-> bins[k] + (bins[k + 1] - bins[k]) \div 2]

\* center passed on as it was given.
bar_center_plain(center, bounds) == center

\* Lines 550-554: the defaults of center and clip.
bar_center(center, bounds) ==
    IF center = "None" /\ bounds.kind # "slice" THEN "False" ELSE center
bar_clip(clip, extend) == IF clip = "None" THEN extend = "neither" ELSE clip = "True"

\* Lines 556-569 for ticks already made and sorted.
bar_norm(ticks, is_slice, vmin, vmax, num_colors, labels, center, extend, clip) ==
    IF center = "None"
    THEN LET n == Normalize(vmin, vmax, clip)
         IN  [status |-> "ok", norm |-> n.norm, ticks_none |-> is_slice,
              ticks |-> IF is_slice THEN << >> ELSE ticks, labels |-> labels]
    ELSE IF center = "True"
    THEN IF Len(ticks) = 0 THEN [NoBar EXCEPT !.status = "IndexError"]
         ELSE LET n == BoundaryNorm(norm_bins_of(ticks), num_colors, clip, extend)
              IN  IF n.status # "ok" THEN [NoBar EXCEPT !.status = n.status]
                  ELSE [status |-> "ok", norm |-> n.norm, ticks_none |-> FALSE,
                        ticks |-> bin_centers(norm_bins_of(ticks)),
                        labels |-> IF labels.given THEN labels
                                   ELSE Labels(ticks)]
    ELSE LET n == BoundaryNorm(ticks, num_colors, clip, extend)
         IN  IF n.status # "ok" THEN [NoBar EXCEPT !.status = n.status]
             ELSE [status |-> "ok", norm |-> n.norm, ticks_none |-> FALSE,
                   ticks |-> ticks, labels |-> labels]

\* MatplotlibTastyBar(tmap, bounds, labels, center=center, extend=extend,
\* clip=clip) for a palette of num_colors samples: norm, ticks and the labels
\* the formatter shows (format is None when there are none).
MatplotlibTastyBar(num_colors, bounds, labels, center, extend, clip) ==
    LET t == bar_ticks(num_colors, bounds)
    IN  IF t.status # "ok" THEN [NoBar EXCEPT !.status = t.status]
        ELSE IF bounds.kind # "slice" /\ Len(t.ticks) = 0
        THEN [NoBar EXCEPT !.status = "IndexError"]
        ELSE IF bounds.kind = "slice"
        THEN bar_norm(t.ticks, TRUE, bounds.start * One, bounds.stop * One, num_colors,
                      labels, bar_center(center, bounds), extend, bar_clip(clip, extend))
        ELSE bar_norm(Sort(t.ticks), FALSE, Sort(t.ticks)[1],
                      Sort(t.ticks)[Len(t.ticks)], num_colors,
                      labels, bar_center(center, bounds), extend, bar_clip(clip, extend))

(***************************************************************************)
(* models.py: HoloViewsTastyBar.                                           *)
(***************************************************************************)
\* num_ticks, lines 647-654: bound for a range without a step and for a
\* tick list, never assigned for a range with a step.
Unbound == -1
hv_num_ticks(num_colors, bounds, ticks) ==
    IF bounds.kind = "slice"
    THEN IF bounds.step = None THEN Min(num_colors - 1, MaxTicks) ELSE Unbound
    ELSE Len(ticks)

\* len(labels) if labels else 0
hv_num_labels(labels) == IF labels.given THEN Len(labels.list) ELSE 0

NoHvBar == [status |-> "", ticks |-> << >>, shows |-> ""]

\* Lines 657-677: the labels against the ticks.  The uniform branch tests
\* labels is None, the other one the truth of labels, which an empty list
\* does not have.
hv_labels(ticks, num_ticks, labels, uniform_spacing) ==
    IF uniform_spacing /\ ~labels.given
    THEN [status |-> "ok", ticks |-> ticks, shows |-> "factors"]
    ELSE IF ~uniform_spacing /\ (~labels.given \/ Len(labels.list) = 0)
    THEN [status |-> "ok", ticks |-> ticks, shows |-> "ticks"]
    ELSE IF num_ticks = Unbound THEN [NoHvBar EXCEPT !.status = "UnboundLocalError"]
    ELSE IF uniform_spacing
    THEN IF hv_num_labels(labels) # num_ticks - 1
         THEN [NoHvBar EXCEPT !.status = "ValueError"]
         ELSE [status |-> "ok", ticks |-> ticks, shows |-> "factors"]
    ELSE IF hv_num_labels(labels) # num_ticks
    THEN [NoHvBar EXCEPT !.status = "ValueError"]
    ELSE [status |-> "ok", ticks |-> ticks, shows |-> "overrides"]

\* HoloViewsTastyBar(tmap, bounds, labels, uniform_spacing) for a palette of
\* num_colors samples.
HoloViewsTastyBar(num_colors, bounds, labels, uniform_spacing) ==
    LET t == bar_ticks(num_colors, bounds)
    IN  IF t.status # "ok" THEN [NoHvBar EXCEPT !.status = t.status]
        ELSE hv_labels(t.ticks, hv_num_ticks(num_colors, bounds, t.ticks),
                       labels, uniform_spacing)

(***************************************************************************)
(* One legend built from a palette length, bounds and options.             *)
(***************************************************************************)
BarSizes == {2, 3, 5, 13}
BarLists == {<<0, 4, 18>>, <<18, 0, 4>>, <<1, 2, 3>>, <<5>>, << >>, <<0, 1, 2, 3, 4>>}
BarRanges == {SliceIdx(0, 18, None), SliceIdx(0, 18, 4), SliceIdx(0, 16, 4),
              SliceIdx(0, 10, None), SliceIdx(-2, 4, 2), SliceIdx(0, 18, 0)}
BarBounds == {ListIdx(l) : l \in BarLists} \cup BarRanges
BarLabels == {NoLabels, Labels(<< >>), Labels(<<"a", "b">>), Labels(<<"a", "b", "c">>)}
TriState == {"None", "True", "False"}
Extends == {"both", "neither", "min", "max"}

MplBar ==
    /\ steps = 0
    /\ \E n \in BarSizes, b \in BarBounds, l \in BarLabels, center \in TriState,
          extend \in Extends, clip \in TriState :
            Call([NoOp EXCEPT !.name = "MatplotlibTastyBar", !.n = n, !.idx = b,
                              !.labels = l, !.center = center, !.extend = extend,
                              !.clip = clip],
                 MatplotlibTastyBar(n, b, l, center, extend, clip))

HvBar ==
    /\ steps = 0
    /\ \E n \in BarSizes, b \in BarBounds, l \in BarLabels, u \in BOOLEAN :
            Call([NoOp EXCEPT !.name = "HoloViewsTastyBar", !.n = n, !.idx = b,
                              !.labels = l, !.uniform_spacing = u],
                 HoloViewsTastyBar(n, b, l, u))

NextBar == MplBar \/ HvBar

SpecBar == Init /\ [][NextBar]_vars

Ascending(seq) == \A k \in 1..(Len(seq) - 1) : seq[k] <= seq[k + 1]
Count(seq, x) == Cardinality({k \in 1..Len(seq) : seq[k] = x})
SameValues(s, t) ==
    /\ Len(s) = Len(t)
    /\ \A k \in 1..Len(s) : Count(s, s[k]) = Count(t, s[k])

MplBuilt == op.name = "MatplotlibTastyBar" /\ ret.status = "ok"
IsRange == op.idx.kind = "slice"

\* C23: a MatplotlibTastyBar that is built has, with center unset and a tick
\* list, a BoundaryNorm over the bounds in ascending order, those for ticks,
\* and with extend and clip left at their defaults extend "both" and clip
\* false; with center unset and a range a Normalize over [start, stop] and
\* no ticks; with center False a BoundaryNorm whose boundaries are the
\* ticks; with center True a BoundaryNorm with one boundary more than ticks,
\* each tick the centre of two consecutive boundaries.
C23_NormChoice ==
    MplBuilt =>
        /\ (op.center = "None" /\ ~IsRange) =>
               /\ ret.norm.kind = "BoundaryNorm"
               /\ Ascending(ret.norm.boundaries)
               /\ SameValues(ret.norm.boundaries, Scaled(op.idx.lst))
               /\ ~ret.ticks_none /\ ret.ticks = ret.norm.boundaries
               /\ (op.extend = "both" /\ op.clip = "None") =>
                      ret.norm.extend = "both" /\ ~ret.norm.clip
        /\ (op.center = "None" /\ IsRange) =>
               /\ ret.norm.kind = "Normalize"
               /\ ret.norm.vmin = op.idx.start * One
               /\ ret.norm.vmax = op.idx.stop * One
               /\ ret.ticks_none
        /\ op.center = "False" =>
               /\ ret.norm.kind = "BoundaryNorm"
               /\ ~ret.ticks_none /\ ret.ticks = ret.norm.boundaries
        /\ op.center = "True" =>
               /\ ret.norm.kind = "BoundaryNorm"
               /\ ~ret.ticks_none
               /\ Len(ret.norm.boundaries) = Len(ret.ticks) + 1
               /\ \A k \in 1..Len(ret.ticks) :
                      2 * ret.ticks[k] = ret.norm.boundaries[k] + ret.norm.boundaries[k + 1]

\* The bounds [18, 0, 4] with everything else left unset.
C23_Witness ==
    /\ MplBuilt
    /\ op.idx = ListIdx(<<18, 0, 4>>)
    /\ op.center = "None" /\ op.extend = "both" /\ op.clip = "None"
    /\ ret.norm.kind = "BoundaryNorm"
    /\ ret.ticks = <<0, 4 * One, 18 * One>>
    /\ ~ret.norm.clip

\* A bar built with center=True from an ascending tick list.
Centered ==
    /\ MplBuilt
    /\ op.center = "True"
    /\ ~IsRange
    /\ Ascending(op.idx.lst)

\* Tick k of the list lies midway between edge k and edge k + 1 of the norm.
AtCentre(k) ==
    2 * Scaled(op.idx.lst)[k] = ret.norm.boundaries[k] + ret.norm.boundaries[k + 1]

\* C24, as the specification has it: with center=True every tick of the
\* list lies at the centre of its own bin of the norm.
C24_TicksAtBinCentres ==
    Centered => \A k \in 1..Len(op.idx.lst) : AtCentre(k)

\* C24, amended: with center=True the edges of the norm are the first tick
\* minus 0.5 and every tick plus 0.5; the first tick lies at the centre of
\* its bin and a later tick exactly when it is 1 above the tick before it;
\* the ticks returned are the centres of the bins.
C24_EdgesHalfAboveTicks ==
    Centered =>
        /\ Len(ret.norm.boundaries) = Len(op.idx.lst) + 1
        /\ ret.norm.boundaries[1] = Scaled(op.idx.lst)[1] - Half
        /\ \A k \in 1..Len(op.idx.lst) :
               /\ ret.norm.boundaries[k + 1] = Scaled(op.idx.lst)[k] + Half
               /\ AtCentre(k) <=> (k = 1 \/ op.idx.lst[k] - op.idx.lst[k - 1] = 1)
               /\ 2 * ret.ticks[k] = ret.norm.boundaries[k] + ret.norm.boundaries[k + 1]

\* The ticks 0, 4, 18 with center=True: the ticks returned are 0, 2.5, 11.5.
C24_Witness ==
    /\ Centered
    /\ op.idx.lst = <<0, 4, 18>>
    /\ ret.ticks = <<0, 2 * One + Half, 11 * One + Half>>
    /\ ret.labels.list = Scaled(<<0, 4, 18>>)

\* C25: for a range with a positive step the ticks are start, start + step,
\* and so on, none of them greater than stop, and stop is the last of them
\* when stop - start is a multiple of the step.
C25_StepTicks ==
    (op.name = "HoloViewsTastyBar" /\ IsRange /\ op.idx.step # None /\ op.idx.step > 0
        /\ ret.status = "ok") =>
            /\ \A k \in 1..Len(ret.ticks) :
                   /\ ret.ticks[k] = (op.idx.start + (k - 1) * op.idx.step) * One
                   /\ ret.ticks[k] <= op.idx.stop * One
            /\ (op.idx.stop - op.idx.start) % op.idx.step = 0 =>
                   ret.ticks[Len(ret.ticks)] = op.idx.stop * One

\* C26: for a tick list, HoloViewsTastyBar with labels given is built
\* exactly when there is one label fewer than ticks under uniform spacing,
\* and as many labels as ticks otherwise; every mismatch is a ValueError;
\* without labels it is always built.
C26_LabelCardinality ==
    (op.name = "HoloViewsTastyBar" /\ ~IsRange) =>
        /\ ret.status \in {"ok", "ValueError"}
        /\ ~op.labels.given => ret.status = "ok"
        /\ (op.labels.given /\ op.uniform_spacing) =>
               (ret.status = "ok" <=> Len(op.labels.list) = Len(op.idx.lst) - 1)
        /\ (op.labels.given /\ ~op.uniform_spacing) =>
               (ret.status = "ok" <=> Len(op.labels.list) = Len(op.idx.lst))

\* C30: for a range, with or without a (non-zero) step, and labels given,
\* HoloViewsTastyBar is built or raises the count-mismatch ValueError exactly
\* as it does for the list of the ticks the range generates, and raises no
\* other error.
C30_RangeLikeList ==
    (op.name = "HoloViewsTastyBar" /\ IsRange /\ op.idx.step # 0 /\ op.labels.given) =>
        LET t == bar_ticks(op.n, op.idx).ticks
        IN  /\ ret.status \in {"ok", "ValueError"}
            /\ ret.status = hv_labels(t, Len(t), op.labels, op.uniform_spacing).status

\* C27: reverse() never raises: on every palette of two or more samples
\* reached through from_str, rename, concatenation, subsetting and reverse
\* it returns a palette.
C27_ReverseTotal ==
    (op.name = "reverse" /\ Len(tmap.colors) >= 2) => ret.status = "ok"

(***************************************************************************)
(* reverse() called again and again on its own result.  before keeps the   *)
(* palette the calls started from, steps counts the calls that returned.   *)
(***************************************************************************)
MaxReverses == 4

\* The palettes one public call makes of p.
OneCall(p) ==
    {r.val : r \in {c \in {Ok(p), rename(p, "my"), rename(p, "my_red"), and(p, p),
                            set_extremes(p, 7, None, 7)}
                           \cup {resize(p, n) : n \in 1..MaxN}
                           \cup {getitem(p, idx) : idx \in IdxArgs} : c.status = "ok"}}

\* The number of _r tokens of a name: the matches of r"_r+(?=_|$)".
RCount(name) == Len(FindAllR(name, 1))

ReversePalettes ==
    {q \in UNION {OneCall(p) : p \in OneCall(Hot)} : RCount(q.name) = 0}

InitReverse ==
    /\ registry = BuiltinCmaps
    /\ tmap \in ReversePalettes
    /\ before = tmap
    /\ op = NoOp
    /\ ret = Ok(tmap)
    /\ same = FALSE
    /\ steps = 0

ReverseAgain ==
    /\ steps < MaxReverses
    /\ op' = [NoOp EXCEPT !.name = "reverse"]
    /\ ret' = reverse(tmap)
    /\ tmap' = IF ret'.status = "ok" THEN ret'.val ELSE tmap
    /\ steps' = IF ret'.status = "ok" THEN steps + 1 ELSE steps
    /\ UNCHANGED <<registry, before, same>>

SpecReverse == InitReverse /\ [][ReverseAgain]_vars

\* C28: from a palette whose name holds no _r token, after k consecutive
\* reverse() calls the name holds exactly one _r token, at its end, and the
\* samples are the reversed ones when k is odd; the name and the samples
\* are the original ones when k is even.
C28_NameTracksParity ==
    /\ steps % 2 = 1 =>
           /\ RCount(tmap.name) = 1
           /\ tmap.name = before.name \o "_r"
           /\ tmap.colors = Rev(before.colors)
    /\ steps % 2 = 0 =>
           /\ RCount(tmap.name) = 0
           /\ tmap.name = before.name
           /\ tmap.colors = before.colors

C28_Witness ==
    /\ steps = 3
    /\ op.name = "reverse"
    /\ ret.status = "ok"
    /\ tmap.colors # before.colors
    /\ tmap.name = "hot_i::2_r"

\* C29: whatever num_colors and reverse are, the palette cook_tmap returns
\* has the bad, under and over colours it was asked for.
C29_ExtremesReachResult ==
    (op.name = "cook_tmap" /\ op.bad # None /\ ret.status = "ok") =>
        /\ get_bad(ret.val) = op.bad
        /\ get_under(ret.val) = op.under
        /\ get_over(ret.val) = op.over
====
